---- MODULE Spec2Model ----
(***************************************************************************)
(* A model of src/main.py: the questionnaire parser (parse_questionnaire   *)
(* and its four section parsers) and the text extractor                    *)
(* (extract_text_from_pdf).                                                *)
(*                                                                         *)
(* A text is a sequence of tokens.  A token is a one-character string      *)
(* ("1", ".", " ", "\n", "a", ...) or a word ("Multiple", "Choice", "Q")   *)
(* that stands for a run of letters.  The regular expressions of the       *)
(* source are operators over token sequences.  List indices are 0-based    *)
(* as in the source: At(s, k) is s[k].                                     *)
(***************************************************************************)
EXTENDS Integers, Sequences, FiniteSets, TLC

\* ------------------------------------------------------------------------
\* Characters and strings
\* ------------------------------------------------------------------------

NL == "\n"

\* the tokens str.strip() removes and \s matches
Whitespace == {" ", "\t", NL}

\* \d
Digits == {"0", "1", "2", "3", "4", "5", "6", "7", "8", "9"}

\* [\.)\s]
Delimiters == {".", ")"} \cup Whitespace

\* [a-d1-4], after re.IGNORECASE has folded the case
OptionLabels == {"a", "b", "c", "d", "1", "2", "3", "4"}

\* variant of Lower: re.IGNORECASE left out
LowerExact(t) == t

\* case folding of re.IGNORECASE, on the tokens the inputs use
Lower(t) ==
    CASE t = "A" -> "a" [] t = "B" -> "b" [] t = "C" -> "c" [] t = "D" -> "d"
      [] t \in {"Multiple", "MULTIPLE"} -> "multiple"
      [] t \in {"Choice", "CHOICE"} -> "choice"
      [] t \in {"True", "TRUE"} -> "true"
      [] t \in {"Or", "OR"} -> "or"
      [] t \in {"False", "FALSE"} -> "false"
      [] t \in {"Short", "SHORT"} -> "short"
      [] t \in {"Long", "LONG"} -> "long"
      [] t \in {"Answer", "ANSWER"} -> "answer"
      [] OTHER -> t

\* s[k], 0-based
At(s, k) == s[k + 1]

\* s[k:]
From(s, k) == SubSeq(s, k + 1, Len(s))

\* the length of the longest prefix of s made of tokens of set S
RECURSIVE PrefixLen(_, _)
PrefixLen(s, S) ==
    IF s = <<>> \/ Head(s) \notin S THEN 0 ELSE 1 + PrefixLen(Tail(s), S)

\* the length of the longest suffix of s made of tokens of set S
RECURSIVE SuffixLen(_, _)
SuffixLen(s, S) ==
    IF s = <<>> \/ s[Len(s)] \notin S THEN 0
    ELSE 1 + SuffixLen(SubSeq(s, 1, Len(s) - 1), S)

\* str.strip()
Strip(s) ==
    LET a == PrefixLen(s, Whitespace)
    IN  IF a = Len(s) THEN <<>>
        ELSE SubSeq(s, a + 1, Len(s) - SuffixLen(s, Whitespace))

\* re.sub(r'\n+', '\n', text): every run of line breaks becomes one.  (A
\* function, as SplitLines is: its argument is evaluated once.)
CollapseNewlines[t \in Seq(STRING)] ==
    IF t = <<>> THEN <<>>
    ELSE IF Head(t) = NL /\ Len(t) >= 2 /\ t[2] = NL THEN CollapseNewlines[Tail(t)]
    ELSE <<Head(t)>> \o CollapseNewlines[Tail(t)]

\* the number of tokens before the first line break
RECURSIVE LineLength(_)
LineLength(t) ==
    IF t = <<>> \/ Head(t) = NL THEN 0 ELSE 1 + LineLength(Tail(t))

\* text.split('\n'): n line breaks give n + 1 pieces, empty ones kept
SplitLines[t \in Seq(STRING)] ==
    IF LineLength(t) = Len(t) THEN <<t>>
    ELSE <<SubSeq(t, 1, LineLength(t))>> \o SplitLines[From(t, LineLength(t) + 1)]

\* the first two statements of parse_questionnaire: the line list
NormalizeLines(t) ==
    LET pieces == SplitLines[CollapseNewlines[t]]
    IN  [k \in 1..Len(pieces) |-> Strip(pieces[k])]

\* ------------------------------------------------------------------------
\* The regular expressions
\* ------------------------------------------------------------------------

\* the values of "type"
Kinds == {"mcq", "true_false", "short_answer", "long_answer"}

\* the words of each header expression, case folded
HeaderWords(kind) ==
    CASE kind = "mcq" -> <<"multiple", "choice">>
      [] kind = "true_false" -> <<"true", "or", "false">>
      [] kind = "short_answer" -> <<"short", "answer">>
      [] kind = "long_answer" -> <<"long", "answer">>

\* re.match(r'^W1\s+W2\s+...', s, re.IGNORECASE): the words, one or more
\* whitespace tokens between two of them, anything after the last
RECURSIVE MatchWords(_, _)
MatchWords(s, ws) ==
    /\ s # <<>>
    /\ Lower(Head(s)) = Head(ws)
    /\ \/ Len(ws) = 1
       \/ LET n == PrefixLen(Tail(s), Whitespace)
          IN  n >= 1 /\ MatchWords(From(Tail(s), n), Tail(ws))

IsHeader(line, kind) == MatchWords(line, HeaderWords(kind))

\* variant of Terminators: "|Long\s+Answer" left out of the alternation of
\* parse_mcq_section
TerminatorsWithoutLong(kind) ==
    CASE kind = "mcq" -> {"true_false", "short_answer"}
      [] kind = "true_false" -> {"mcq", "short_answer", "long_answer"}
      [] kind = "short_answer" -> {"mcq", "true_false", "long_answer"}
      [] kind = "long_answer" -> {"mcq", "true_false", "short_answer"}

\* the alternation each section parser breaks on: the three other kinds
Terminators(kind) ==
    CASE kind = "mcq" -> {"true_false", "short_answer", "long_answer"}
      [] kind = "true_false" -> {"mcq", "short_answer", "long_answer"}
      [] kind = "short_answer" -> {"mcq", "true_false", "long_answer"}
      [] kind = "long_answer" -> {"mcq", "true_false", "short_answer"}

AtOtherSection(line, kind) == \E k \in Terminators(kind) : IsHeader(line, k)

\* the if/elif chain of parse_questionnaire: the kind of the header a line
\* is, "none" when it is none
HeaderKind(line) ==
    IF IsHeader(line, "mcq") THEN "mcq"
    ELSE IF IsHeader(line, "true_false") THEN "true_false"
    ELSE IF IsHeader(line, "short_answer") THEN "short_answer"
    ELSE IF IsHeader(line, "long_answer") THEN "long_answer"
    ELSE "none"

\* The tail [\.)\s]+(.+) of both patterns on what follows a label of n tokens:
\* the delimiter run is greedy but leaves one token to (.+), so a line that
\* ends in its delimiters gives the last of them up.  The result is the number
\* of delimiter tokens matched, 0 when the tail does not match.
DelimLen(line, n) ==
    LET rest == From(line, n)
        run == PrefixLen(rest, Delimiters)
    IN  IF run = Len(rest) THEN (IF run >= 2 THEN run - 1 ELSE 0) ELSE run

\* re.match(r'^(\d+)[\.)\s]+(.+)', line).  No digit is a delimiter, so (\d+)
\* is the whole digit prefix.
QuestionMatch(line) ==
    LET n == PrefixLen(line, Digits)
    IN  n >= 1 /\ DelimLen(line, n) >= 1

\* group(1) and group(2).strip() of the question pattern
QuestionNumber(line) == SubSeq(line, 1, PrefixLen(line, Digits))

QuestionBody(line) ==
    LET n == PrefixLen(line, Digits)
    IN  Strip(From(line, n + DelimLen(line, n)))

\* re.match(r'^([a-d1-4])[\.)\s]+(.+)', line, re.IGNORECASE)
OptionMatch(line) ==
    /\ line # <<>>
    /\ Lower(Head(line)) \in OptionLabels
    /\ DelimLen(line, 1) >= 1

\* group(1) and group(2).strip() of the option pattern
OptionLetter(line) == <<Head(line)>>

OptionBody(line) == Strip(From(line, 1 + DelimLen(line, 1)))

\* f"{num}. {text}"
Labelled(num, body) == num \o <<".", " ">> \o body

\* The question dictionary a section parser creates.  "line" is a history
\* field: the index in lines of the line the question was read from.
NewQuestion(kind, line, k) ==
    [number |-> QuestionNumber(line),
     text |-> Labelled(QuestionNumber(line), QuestionBody(line)),
     type |-> kind,
     options |-> <<>>,
     line |-> k]

\* The option dictionary; "line" as for a question.
NewOption(line, k) ==
    [letter |-> OptionLetter(line),
     text |-> Labelled(OptionLetter(line), OptionBody(line)),
     line |-> k]

\* ------------------------------------------------------------------------
\* The state
\* ------------------------------------------------------------------------

\* the invocations of parse_questionnaire that may run at the same time
Procs == {1, 2}

\* frames[p] holds the local variables of invocation p of parse_questionnaire
\* and of the section parser it is in:
\*   pc            "idle" (never called), "start" (called, before the first
\*                 statement), "dispatch" (at the while of parse_questionnaire),
\*                 "section" (at the while of a section parser), "options" (at
\*                 the inner while of parse_mcq_section), "done" (returned)
\*   text          the argument
\*   lines, i, all_questions         the locals of parse_questionnaire
\*   kind          the section parser called: the "type" it gives its questions
\*   start_index, j, questions       the locals of the section parser (j is
\*                 its i)
\*   question, option_count          the locals of the MCQ option scan
\*   returns       history: what each section parser call returned, in call
\*                 order, with its kind and start index
\* extraction holds the locals of one call of extract_text_from_pdf.
\* document holds the locals of one call of create_structured_pdf.
VARIABLES frames, extraction, document

vars == <<frames, extraction, document>>

NoQuestion ==
    [number |-> <<>>, text |-> <<>>, type |-> "none", options |-> <<>>,
     line |-> -1]

IdleFrame ==
    [pc |-> "idle", text |-> <<>>, lines |-> <<>>, i |-> 0,
     all_questions |-> <<>>, kind |-> "none", start_index |-> 0, j |-> 0,
     questions |-> <<>>, question |-> NoQuestion, option_count |-> 0,
     returns |-> <<>>]

\* the frame of a call parse_questionnaire(text)
CalledFrame(text) == [IdleFrame EXCEPT !.pc = "start", !.text = text]

\* ------------------------------------------------------------------------
\* parse_questionnaire: one operator per branch, on one frame
\* ------------------------------------------------------------------------

\* "while i < len(lines)" of parse_questionnaire
InDispatch(f) == f.pc = "dispatch" /\ f.i < Len(f.lines)

\* "line = lines[i].strip()"
DispatchLine(f) == Strip(At(f.lines, f.i))

\* text = re.sub(...); lines = [...]; all_questions = []; i = 0
Normalize(f) ==
    [f EXCEPT !.pc = "dispatch", !.lines = NormalizeLines(f.text),
              !.all_questions = <<>>, !.i = 0]

\* variant of DispatchAdvance: "break" written for "i += 1"
DispatchAdvanceBreaking(f) == [f EXCEPT !.pc = "done"]

\* "i += 1" of parse_questionnaire, for a blank line and for any other line
\* that is no header
DispatchAdvance(f) == [f EXCEPT !.i = f.i + 1]

\* The call parse_<kind>_section(lines, i + 1), up to the while of the section
\* parser: questions = [], i = start_index, and one blank line skipped.
EnterSection(f, kind) ==
    LET start == f.i + 1
    IN  [f EXCEPT !.pc = "section", !.kind = kind, !.start_index = start,
                  !.questions = <<>>,
                  !.j = IF start < Len(f.lines) /\ Strip(At(f.lines, start)) = <<>>
                        THEN start + 1 ELSE start]

\* the while of parse_questionnaire is left: return all_questions
Finish(f) == [f EXCEPT !.pc = "done"]

\* ------------------------------------------------------------------------
\* The section parsers
\* ------------------------------------------------------------------------

\* "while i < len(lines)" of a section parser
InSection(f) == f.pc = "section" /\ f.j < Len(f.lines)

\* "line = lines[i].strip()"
SectionLine(f) == Strip(At(f.lines, f.j))

\* variant of ReturnSection: the line the parser stopped at is consumed
ReturnSectionConsuming(f) ==
    [f EXCEPT !.pc = "dispatch", !.i = f.j + 1,
              !.all_questions = f.all_questions \o f.questions,
              !.returns = Append(f.returns,
                                 [kind |-> f.kind, start |-> f.start_index,
                                  resume |-> f.j + 1, questions |-> f.questions])]

\* variant of ReturnSection: the questions are put in front of the result
ReturnSectionPrepending(f) ==
    [f EXCEPT !.pc = "dispatch", !.i = f.j,
              !.all_questions = f.questions \o f.all_questions,
              !.returns = Append(f.returns,
                                 [kind |-> f.kind, start |-> f.start_index,
                                  resume |-> f.j, questions |-> f.questions])]

\* variant of ReturnSection: "=" written for "extend"
ReturnSectionOverwriting(f) ==
    [f EXCEPT !.pc = "dispatch", !.i = f.j,
              !.all_questions = f.questions,
              !.returns = Append(f.returns,
                                 [kind |-> f.kind, start |-> f.start_index,
                                  resume |-> f.j, questions |-> f.questions])]

\* "return questions, i" and, in parse_questionnaire,
\* "<kind>_questions, i = ...; all_questions.extend(<kind>_questions); continue"
ReturnSection(f) ==
    [f EXCEPT !.pc = "dispatch", !.i = f.j,
              !.all_questions = f.all_questions \o f.questions,
              !.returns = Append(f.returns,
                                 [kind |-> f.kind, start |-> f.start_index,
                                  resume |-> f.j, questions |-> f.questions])]

\* variant of SectionAdvance: "i += 1" left out
SectionAdvanceStuck(f) == f

\* "i += 1" of a section parser: a blank line, or a line that is no question
SectionAdvance(f) == [f EXCEPT !.j = f.j + 1]

\* variant of HasOptions: parse_true_false_section scans for options too
HasOptionsTrueFalse(kind) == kind \in {"mcq", "true_false"}

\* only parse_mcq_section scans for options after a question line
HasOptions(kind) == kind = "mcq"

\* a question line of a section without options: the question is appended,
\* then "i += 1"
AppendQuestion(f) ==
    [f EXCEPT !.questions = Append(f.questions,
                                   NewQuestion(f.kind, SectionLine(f), f.j)),
              !.j = f.j + 1]

\* a question line of parse_mcq_section: question = {...}; i += 1;
\* option_count = 0, up to the inner while
BeginQuestion(f) ==
    [f EXCEPT !.pc = "options",
              !.question = NewQuestion(f.kind, SectionLine(f), f.j),
              !.j = f.j + 1, !.option_count = 0]

\* "Look for 4 options"
MaxOptions == 4

\* variant of InOptions: the count is not tested
InOptionsUncounted(f) == f.pc = "options" /\ f.j < Len(f.lines)

\* variant of InOptions: "<=" written for "<"
InOptionsInclusive(f) ==
    f.pc = "options" /\ f.j < Len(f.lines) /\ f.option_count <= MaxOptions

\* "while i < len(lines) and option_count < 4"
InOptions(f) ==
    f.pc = "options" /\ f.j < Len(f.lines) /\ f.option_count < MaxOptions

\* "option_line = lines[i].strip()"
OptionLine(f) == Strip(At(f.lines, f.j))

\* variant of OptionAdvance: a blank line is counted as an option
OptionAdvanceCounting(f) ==
    [f EXCEPT !.j = f.j + 1, !.option_count = f.option_count + 1]

\* "i += 1; continue" of the option scan, for a blank line
OptionAdvance(f) == [f EXCEPT !.j = f.j + 1]

\* variant of AppendOption: "i += 1" left out
AppendOptionStaying(f) ==
    [f EXCEPT !.question.options = Append(f.question.options,
                                          NewOption(OptionLine(f), f.j)),
              !.option_count = f.option_count + 1]

\* question["options"].append({...}); option_count += 1; i += 1
AppendOption(f) ==
    [f EXCEPT !.question.options = Append(f.question.options,
                                          NewOption(OptionLine(f), f.j)),
              !.option_count = f.option_count + 1,
              !.j = f.j + 1]

\* variant of EmitQuestion: a question without options is dropped
EmitQuestionWithOptions(f) ==
    [f EXCEPT !.pc = "section",
              !.questions = IF f.question.options = <<>> THEN f.questions
                            ELSE Append(f.questions, f.question)]

\* the option scan is left, by its condition or by break:
\* questions.append(question)
EmitQuestion(f) ==
    [f EXCEPT !.pc = "section", !.questions = Append(f.questions, f.question)]

\* ------------------------------------------------------------------------
\* The steps of one invocation
\* ------------------------------------------------------------------------

\* variant of Update: the cursor i is a module-level variable
UpdateSharedCursor(p, f) ==
    [q \in Procs |-> IF q = p THEN f ELSE [frames[q] EXCEPT !.i = f.i]]

\* The locals of an invocation are its own: a step of invocation p writes
\* frame p and no other.
Update(p, f) == [frames EXCEPT ![p] = f]

\* the header branches of parse_questionnaire are taken for a non-blank line
AtHeader(f) ==
    InDispatch(f) /\ DispatchLine(f) # <<>> /\ HeaderKind(DispatchLine(f)) # "none"

\* "if re.match(<the other headers>): break" is reached for a non-blank line
AtBreak(f) ==
    InSection(f) /\ SectionLine(f) # <<>> /\ AtOtherSection(SectionLine(f), f.kind)

\* "if question_match" is reached for a non-blank line that is no other header
AtQuestion(f) ==
    /\ InSection(f) /\ SectionLine(f) # <<>>
    /\ ~AtOtherSection(SectionLine(f), f.kind)
    /\ QuestionMatch(SectionLine(f))

\* "if option_match" is reached for a non-blank line
AtOption(f) ==
    InOptions(f) /\ OptionLine(f) # <<>> /\ OptionMatch(OptionLine(f))

\* the statement an invocation executes next, as a function of its frame
StepFrame(f) ==
    CASE f.pc = "start" -> Normalize(f)
      [] f.pc = "dispatch" ->
            IF ~InDispatch(f) THEN Finish(f)
            ELSE IF DispatchLine(f) = <<>> THEN DispatchAdvance(f)
            ELSE IF AtHeader(f) THEN EnterSection(f, HeaderKind(DispatchLine(f)))
            ELSE DispatchAdvance(f)
      [] f.pc = "section" ->
            IF ~InSection(f) THEN ReturnSection(f)
            ELSE IF SectionLine(f) = <<>> THEN SectionAdvance(f)
            ELSE IF AtBreak(f) THEN ReturnSection(f)
            ELSE IF AtQuestion(f)
                 THEN (IF HasOptions(f.kind) THEN BeginQuestion(f)
                       ELSE AppendQuestion(f))
            ELSE SectionAdvance(f)
      [] f.pc = "options" ->
            IF ~InOptions(f) THEN EmitQuestion(f)
            ELSE IF OptionLine(f) = <<>> THEN OptionAdvance(f)
            ELSE IF AtOption(f) THEN AppendOption(f)
            ELSE EmitQuestion(f)
      [] OTHER -> f

\* parse_questionnaire(text) run alone, from call to return
RECURSIVE RunFrame(_)
RunFrame(f) == IF f.pc \in {"done", "idle"} THEN f ELSE RunFrame(StepFrame(f))

ParseQuestionnaire(text) == RunFrame(CalledFrame(text)).all_questions

\* ------------------------------------------------------------------------
\* The actions of parse_questionnaire
\* ------------------------------------------------------------------------

Call(p) ==
    /\ frames[p].pc = "start"
    /\ frames' = Update(p, Normalize(frames[p]))
    /\ UNCHANGED <<extraction, document>>

DispatchBlank(p) ==
    /\ InDispatch(frames[p]) /\ DispatchLine(frames[p]) = <<>>
    /\ frames' = Update(p, DispatchAdvance(frames[p]))
    /\ UNCHANGED <<extraction, document>>

DispatchHeader(p) ==
    /\ AtHeader(frames[p])
    /\ frames' = Update(p, EnterSection(frames[p],
                                        HeaderKind(DispatchLine(frames[p]))))
    /\ UNCHANGED <<extraction, document>>

DispatchOther(p) ==
    /\ InDispatch(frames[p]) /\ DispatchLine(frames[p]) # <<>>
    /\ ~AtHeader(frames[p])
    /\ frames' = Update(p, DispatchAdvance(frames[p]))
    /\ UNCHANGED <<extraction, document>>

DispatchEnd(p) ==
    /\ frames[p].pc = "dispatch" /\ ~InDispatch(frames[p])
    /\ frames' = Update(p, Finish(frames[p]))
    /\ UNCHANGED <<extraction, document>>

SectionBlank(p) ==
    /\ InSection(frames[p]) /\ SectionLine(frames[p]) = <<>>
    /\ frames' = Update(p, SectionAdvance(frames[p]))
    /\ UNCHANGED <<extraction, document>>

SectionBreak(p) ==
    /\ AtBreak(frames[p])
    /\ frames' = Update(p, ReturnSection(frames[p]))
    /\ UNCHANGED <<extraction, document>>

SectionQuestion(p) ==
    /\ AtQuestion(frames[p]) /\ ~HasOptions(frames[p].kind)
    /\ frames' = Update(p, AppendQuestion(frames[p]))
    /\ UNCHANGED <<extraction, document>>

McqQuestion(p) ==
    /\ AtQuestion(frames[p]) /\ HasOptions(frames[p].kind)
    /\ frames' = Update(p, BeginQuestion(frames[p]))
    /\ UNCHANGED <<extraction, document>>

SectionSkip(p) ==
    /\ InSection(frames[p]) /\ SectionLine(frames[p]) # <<>>
    /\ ~AtBreak(frames[p]) /\ ~AtQuestion(frames[p])
    /\ frames' = Update(p, SectionAdvance(frames[p]))
    /\ UNCHANGED <<extraction, document>>

SectionEnd(p) ==
    /\ frames[p].pc = "section" /\ ~InSection(frames[p])
    /\ frames' = Update(p, ReturnSection(frames[p]))
    /\ UNCHANGED <<extraction, document>>

OptionBlank(p) ==
    /\ InOptions(frames[p]) /\ OptionLine(frames[p]) = <<>>
    /\ frames' = Update(p, OptionAdvance(frames[p]))
    /\ UNCHANGED <<extraction, document>>

OptionFound(p) ==
    /\ AtOption(frames[p])
    /\ frames' = Update(p, AppendOption(frames[p]))
    /\ UNCHANGED <<extraction, document>>

OptionBreak(p) ==
    /\ InOptions(frames[p]) /\ OptionLine(frames[p]) # <<>>
    /\ ~AtOption(frames[p])
    /\ frames' = Update(p, EmitQuestion(frames[p]))
    /\ UNCHANGED <<extraction, document>>

OptionEnd(p) ==
    /\ frames[p].pc = "options" /\ ~InOptions(frames[p])
    /\ frames' = Update(p, EmitQuestion(frames[p]))
    /\ UNCHANGED <<extraction, document>>

\* ------------------------------------------------------------------------
\* extract_text_from_pdf
\* ------------------------------------------------------------------------

\* "len(text) > 100", of both methods
MinTextLength == 100

\* What a library does with the document: it raises (exc is the class of the
\* exception) or it yields a text, of which the model keeps the length after
\* strip().
NoException == "none"

\* classes the two libraries raise; all derive from Exception
ExceptionClasses == {"FileNotFoundError", "RuntimeError", "ValueError"}

\* "except Exception as e"
Caught(exc) == exc \in ExceptionClasses

\* "return "Text extraction failed for this document.""
Sentinel == [by |-> "sentinel", len |-> 41]

IdleExtraction ==
    [pc |-> "idle", fitz |-> [exc |-> NoException, len |-> 0],
     plumber |-> [exc |-> NoException, len |-> 0],
     text |-> [by |-> "none", len |-> 0],
     result |-> [by |-> "none", len |-> 0]]

\* the frame of a call of extract_text_from_pdf on a document for which
\* PyMuPDF does `fitz` and pdfplumber does `plumber`; text = ""
CalledExtraction(fitz, plumber) ==
    [IdleExtraction EXCEPT !.pc = "fitz", !.fitz = fitz, !.plumber = plumber]

\* variant of Substantial: ">=" written for ">"
SubstantialInclusive(text) == text.len # 0 /\ text.len >= MinTextLength

\* "if text and len(text) > 100"
Substantial(text) == text.len # 0 /\ text.len > MinTextLength

\* One "try: ... except Exception" block: the library named `by` does
\* `outcome`; `next` is where control goes when the block does not return.
TryMethod(e, by, outcome, next) ==
    IF outcome.exc = NoException
    THEN LET text == [by |-> by, len |-> outcome.len]
         IN  IF Substantial(text)
             THEN [e EXCEPT !.pc = "done", !.text = text, !.result = text]
             ELSE [e EXCEPT !.pc = next, !.text = text]
    ELSE IF Caught(outcome.exc) THEN [e EXCEPT !.pc = next]
    ELSE [e EXCEPT !.pc = "raised"]

\* Method 1
ExtractPyMuPDF ==
    /\ extraction.pc = "fitz"
    /\ extraction' = TryMethod(extraction, "fitz", extraction.fitz, "plumber")
    /\ UNCHANGED <<frames, document>>

\* Method 2
ExtractPdfplumber ==
    /\ extraction.pc = "plumber"
    /\ extraction' = TryMethod(extraction, "plumber", extraction.plumber, "failed")
    /\ UNCHANGED <<frames, document>>

\* the last statement
ExtractFailed ==
    /\ extraction.pc = "failed"
    /\ extraction' = [extraction EXCEPT !.pc = "done", !.result = Sentinel]
    /\ UNCHANGED <<frames, document>>

\* ------------------------------------------------------------------------
\* create_structured_pdf
\* ------------------------------------------------------------------------

\* A flowable of reportlab.  Paragraph(text, style): "line" is a history
\* field, the line of the question or option the text is of (-1 for a title
\* or heading).  Spacer(1, h * inch): the height is in hundredths of an inch.
Paragraph(text, style, line) ==
    [flowable |-> "Paragraph", text |-> text, style |-> style, height |-> 0,
     line |-> line]

Spacer(height) ==
    [flowable |-> "Spacer", text |-> <<>>, style |-> "none",
     height |-> height, line |-> -1]

\* the title, and the heading of the block of each kind
TitleText == <<"Questionnaire">>

Heading(kind) ==
    CASE kind = "mcq" -> <<"Multiple", " ", "Choice", " ", "Questions", ":">>
      [] kind = "true_false" -> <<"True", " ", "or", " ", "False", ":">>
      [] kind = "short_answer" -> <<"Short", " ", "Answer", " ", "Questions", ":">>
      [] kind = "long_answer" -> <<"Long", " ", "Answer", " ", "Questions", ":">>

\* variant of Group: the test of the comprehension left out
GroupUnfiltered(questions, kind) == questions

\* [q for q in questions if q["type"] == kind]
Group(questions, kind) ==
    LET HasKind(q) == q["type"] = kind IN SelectSeq(questions, HasKind)

\* the flowables of the options of a question
OptionParagraphs(question) ==
    [o \in 1..Len(question.options) |->
        Paragraph(question.options[o].text, "Normal", question.options[o].line)]

\* the body of "for question in <kind>_questions": the options are laid out
\* in the MCQ block only
QuestionFlowables(question, kind) ==
    IF kind = "mcq"
    THEN <<Paragraph(question.text, "Heading2", question.line), Spacer(5)>>
            \o OptionParagraphs(question) \o <<Spacer(15)>>
    ELSE <<Paragraph(question.text, "Heading2", question.line), Spacer(15)>>

\* "for question in <kind>_questions: ..."
RECURSIVE GroupFlowables(_, _)
GroupFlowables(group, kind) ==
    IF group = <<>> THEN <<>>
    ELSE QuestionFlowables(Head(group), kind)
            \o GroupFlowables(Tail(group), kind)

\* document.pc is "idle" (never called), "start" (called), the kind whose
\* block comes next, "build" (before doc.build) or "built" (returned);
\* groups are mcq_questions, tf_questions, sa_questions, la_questions;
\* built is what doc.build was given to lay out, history.
IdleDocument ==
    [pc |-> "idle", questions |-> <<>>, content |-> <<>>,
     groups |-> [k \in Kinds |-> <<>>], built |-> <<>>]

\* the frame of a call create_structured_pdf(questions, output_path)
CalledDocument(questions) ==
    [IdleDocument EXCEPT !.pc = "start", !.questions = questions]

\* content = [title, spacer]; "Group questions by type"
BeginContent(d) ==
    [d EXCEPT !.pc = "mcq",
              !.content = <<Paragraph(TitleText, "Title", -1), Spacer(25)>>,
              !.groups = [k \in Kinds |-> Group(d.questions, k)]]

\* "if <kind>_questions: heading, spacer, the questions"; next is where
\* control goes after the block
AddBlock(d, kind, next) ==
    IF d.groups[kind] # <<>>
    THEN [d EXCEPT !.pc = next,
                   !.content = d.content
                       \o <<Paragraph(Heading(kind), "Heading1", -1), Spacer(15)>>
                       \o GroupFlowables(d.groups[kind], kind)]
    ELSE [d EXCEPT !.pc = next]

\* doc.build(content): the flowables are laid out in list order
BuildContent(d) == [d EXCEPT !.pc = "built", !.built = d.content]

StartDocument ==
    /\ document.pc = "start"
    /\ document' = BeginContent(document)
    /\ UNCHANGED <<frames, extraction>>

AddMcq ==
    /\ document.pc = "mcq"
    /\ document' = AddBlock(document, "mcq", "true_false")
    /\ UNCHANGED <<frames, extraction>>

AddTrueFalse ==
    /\ document.pc = "true_false"
    /\ document' = AddBlock(document, "true_false", "short_answer")
    /\ UNCHANGED <<frames, extraction>>

AddShortAnswer ==
    /\ document.pc = "short_answer"
    /\ document' = AddBlock(document, "short_answer", "long_answer")
    /\ UNCHANGED <<frames, extraction>>

AddLongAnswer ==
    /\ document.pc = "long_answer"
    /\ document' = AddBlock(document, "long_answer", "build")
    /\ UNCHANGED <<frames, extraction>>

BuildDocument ==
    /\ document.pc = "build"
    /\ document' = BuildContent(document)
    /\ UNCHANGED <<frames, extraction>>

\* ------------------------------------------------------------------------
\* Inputs
\* ------------------------------------------------------------------------

\* the longest general text, in lines
MaxLines == 3

\* the most lines after the first question of a Multiple Choice text
MaxMcqLines == 5

\* the longest text of sections, in lines
MaxSectionLines == 6

\* the longest general text of a call checked for termination, in lines
MaxFairLines == 2

\* the longest text a library yields, in characters
MaxTextLength == 102

HeaderLine(kind) ==
    CASE kind = "mcq" -> <<"Multiple", " ", "Choice">>
      [] kind = "true_false" -> <<"True", " ", "or", " ", "False", ":">>
      [] kind = "short_answer" -> <<"Short", " ", "Answer">>
      [] kind = "long_answer" -> <<"LONG", " ", " ", "answer">>

\* "1. Q": matches the question pattern and the option pattern
LowQuestion == <<"1", ".", " ", "Q">>

\* "12) Q": matches the question pattern only
HighQuestion == <<"1", "2", ")", "Q">>

\* "B x": matches the option pattern only
OptionOnly == <<"B", " ", "x">>

\* a line of blanks
BlankLine == <<" ">>

\* prose that holds a header phrase, not at its start
Prose == <<"See", " ", "Short", " ", "Answer">>

\* the sentinel of extract_text_from_pdf, as a text
SentinelText ==
    <<"Text", " ", "extraction", " ", "failed", " ", "for", " ", "this",
      " ", "document", ".">>

RawLines ==
    {HeaderLine(k) : k \in Kinds}
        \cup {LowQuestion, HighQuestion, OptionOnly, BlankLine, <<>>, Prose}

McqLines == {LowQuestion, HighQuestion, OptionOnly, BlankLine}

SectionLines ==
    {HeaderLine("true_false"), HeaderLine("short_answer"), HighQuestion}

SeqsUpTo(S, n) == UNION {[1..k -> S] : k \in 0..n}

\* "\n".join(ls)
RECURSIVE JoinLines(_)
JoinLines(ls) ==
    IF ls = <<>> THEN <<>>
    ELSE IF Len(ls) = 1 THEN ls[1]
    ELSE ls[1] \o <<NL>> \o JoinLines(Tail(ls))

GeneralTexts == {JoinLines(ls) : ls \in SeqsUpTo(RawLines, MaxLines)}

McqTexts ==
    {JoinLines(<<HeaderLine("mcq"), q>> \o ls) :
        q \in {LowQuestion, HighQuestion}, ls \in SeqsUpTo(McqLines, MaxMcqLines)}

SectionTexts == {JoinLines(ls) : ls \in SeqsUpTo(SectionLines, MaxSectionLines)}

\* the most blank lines before an option line, and after the last
MaxBlanks == 2

\* n blank lines
Blanks(n) == [k \in 1..n |-> BlankLine]

\* a question, four option lines with blank lines before each and after the
\* last, and one more line
OptionTexts ==
    {JoinLines(<<HeaderLine("mcq"), HighQuestion>>
               \o Blanks(b[1]) \o <<OptionOnly>> \o Blanks(b[2]) \o <<LowQuestion>>
               \o Blanks(b[3]) \o <<OptionOnly>> \o Blanks(b[4]) \o <<OptionOnly>>
               \o Blanks(b[5]) \o <<l>>) :
        b \in [1..5 -> 0..MaxBlanks],
        l \in {LowQuestion, HighQuestion, OptionOnly, Prose,
               HeaderLine("true_false")}}

Texts ==
    GeneralTexts \cup McqTexts \cup SectionTexts \cup OptionTexts
        \cup {SentinelText}

\* texts for two calls at a time: between them they take every branch
ConcTexts ==
    {<<>>,
     JoinLines(<<HeaderLine("mcq"), HighQuestion>>),
     JoinLines(<<HeaderLine("mcq"), LowQuestion, OptionOnly, BlankLine,
                 OptionOnly, HighQuestion, HeaderLine("true_false"),
                 HighQuestion>>),
     JoinLines(<<BlankLine, Prose, HeaderLine("short_answer"), BlankLine,
                 BlankLine, Prose, HighQuestion, OptionOnly>>)}

\* a text whose option scans end in the four ways: at the fourth option, at
\* a line that is no option, at the header of another kind, at the end
EndingsText ==
    JoinLines(<<HeaderLine("mcq"), HighQuestion, OptionOnly, OptionOnly,
                OptionOnly, OptionOnly, HighQuestion, Prose, HighQuestion,
                HeaderLine("true_false"), HeaderLine("mcq"), HighQuestion>>)

\* texts for the calls checked for termination
FairTexts ==
    {JoinLines(ls) : ls \in SeqsUpTo(RawLines, MaxFairLines)}
        \cup ConcTexts \cup {EndingsText}

\* the most whitespace tokens between two words of a header
MaxGap == 2

\* a word of a header phrase with its first letter, or all letters, in
\* upper case
TitleCase(w) ==
    CASE w = "multiple" -> "Multiple" [] w = "choice" -> "Choice"
      [] w = "true" -> "True" [] w = "or" -> "Or" [] w = "false" -> "False"
      [] w = "short" -> "Short" [] w = "long" -> "Long"
      [] w = "answer" -> "Answer"

UpperCase(w) ==
    CASE w = "multiple" -> "MULTIPLE" [] w = "choice" -> "CHOICE"
      [] w = "true" -> "TRUE" [] w = "or" -> "OR" [] w = "false" -> "FALSE"
      [] w = "short" -> "SHORT" [] w = "long" -> "LONG"
      [] w = "answer" -> "ANSWER"

LetterCases == {"lower", "title", "upper"}

Cased(w, case) ==
    CASE case = "lower" -> w
      [] case = "title" -> TitleCase(w)
      [] case = "upper" -> UpperCase(w)

\* n whitespace tokens, a space and a tab in turn
Gap(n) == [k \in 1..n |-> IF k % 2 = 1 THEN " " ELSE "\t"]

\* the words ws in a letter case, n whitespace tokens between two of them
RECURSIVE Phrase(_, _, _)
Phrase(ws, case, n) ==
    IF Len(ws) = 1 THEN <<Cased(ws[1], case)>>
    ELSE <<Cased(ws[1], case)>> \o Gap(n) \o Phrase(Tail(ws), case, n)

\* the header of a kind, in a letter case and with a gap
Variant(kind, case, n) == Phrase(HeaderWords(kind), case, n)

\* the forms of the header of a kind that differ in case and gap only
Variants(kind) == {Variant(kind, c, n) : c \in LetterCases, n \in 1..MaxGap}

\* the form the others are compared with: lower case, one space
Canonical(kind) == Variant(kind, "lower", 1)

\* what follows a header in a text of two sections
Bodies ==
    {<<HighQuestion>>,
     <<BlankLine, BlankLine, LowQuestion, BlankLine, OptionOnly, Prose,
       HighQuestion>>}

\* texts of two sections whose headers take every form
HeaderTexts ==
    {JoinLines(<<BlankLine, Prose, g>> \o a \o <<h>> \o b) :
        g \in UNION {Variants(k) : k \in Kinds}, a \in Bodies,
        h \in UNION {Variants(k) : k \in Kinds}, b \in Bodies}

\* the most sections of a text whose questions are laid out
MaxSections == 3

\* what follows a header in such a text: nothing, or two question lines
\* with an option line between them
LayoutBodies == {<<>>, <<HighQuestion, OptionOnly, LowQuestion>>}

\* the lines of a sequence of sections, each a kind and a body
RECURSIVE SectionsLines(_)
SectionsLines(ss) ==
    IF ss = <<>> THEN <<>>
    ELSE <<HeaderLine(Head(ss)[1])>> \o Head(ss)[2] \o SectionsLines(Tail(ss))

\* texts of sections of any kinds in any order
LayoutTexts ==
    {JoinLines(SectionsLines(ss)) :
        ss \in SeqsUpTo(Kinds \X LayoutBodies, MaxSections)}

\* what a library may do with a document
Outcomes ==
    {[exc |-> NoException, len |-> n] : n \in 0..MaxTextLength}
        \cup {[exc |-> c, len |-> 0] : c \in ExceptionClasses}

\* ------------------------------------------------------------------------
\* Specifications
\* ------------------------------------------------------------------------

\* one call of parse_questionnaire
Init ==
    /\ \E t \in Texts :
          frames = [p \in Procs |-> IF p = 1 THEN CalledFrame(t) ELSE IdleFrame]
    /\ extraction = IdleExtraction
    /\ document = IdleDocument

Next ==
    \E p \in Procs :
        \/ Call(p)
        \/ DispatchBlank(p)
        \/ DispatchHeader(p)
        \/ DispatchOther(p)
        \/ DispatchEnd(p)
        \/ SectionBlank(p)
        \/ SectionBreak(p)
        \/ SectionQuestion(p)
        \/ McqQuestion(p)
        \/ SectionSkip(p)
        \/ SectionEnd(p)
        \/ OptionBlank(p)
        \/ OptionFound(p)
        \/ OptionBreak(p)
        \/ OptionEnd(p)

Spec == Init /\ [][Next]_vars

\* one call of parse_questionnaire that runs on: the code is sequential and
\* nothing in it waits, so a step that can be taken is taken
FairInit ==
    /\ \E t \in FairTexts :
          frames = [p \in Procs |-> IF p = 1 THEN CalledFrame(t) ELSE IdleFrame]
    /\ extraction = IdleExtraction
    /\ document = IdleDocument

FairSpec == FairInit /\ [][Next]_vars /\ WF_vars(Next)

\* one call of parse_questionnaire on a text of HeaderTexts
HeaderInit ==
    /\ \E t \in HeaderTexts :
          frames = [p \in Procs |-> IF p = 1 THEN CalledFrame(t) ELSE IdleFrame]
    /\ extraction = IdleExtraction
    /\ document = IdleDocument

HeaderSpec == HeaderInit /\ [][Next]_vars

\* two calls of parse_questionnaire, their steps interleaved
ConcInit ==
    /\ \E t \in ConcTexts, u \in ConcTexts :
          frames = [p \in Procs |-> CalledFrame(IF p = 1 THEN t ELSE u)]
    /\ extraction = IdleExtraction
    /\ document = IdleDocument

ConcSpec == ConcInit /\ [][Next]_vars

\* one call of extract_text_from_pdf
ExtractInit ==
    /\ frames = [p \in Procs |-> IdleFrame]
    /\ \E a \in Outcomes, b \in Outcomes : extraction = CalledExtraction(a, b)
    /\ document = IdleDocument

ExtractNext == ExtractPyMuPDF \/ ExtractPdfplumber \/ ExtractFailed

ExtractSpec == ExtractInit /\ [][ExtractNext]_vars

\* one call of create_structured_pdf, on the list parse_questionnaire
\* returned for a text, as in main
LayoutInit ==
    /\ frames = [p \in Procs |-> IdleFrame]
    /\ extraction = IdleExtraction
    /\ \E t \in LayoutTexts : document = CalledDocument(ParseQuestionnaire(t))

LayoutNext ==
    \/ StartDocument
    \/ AddMcq
    \/ AddTrueFalse
    \/ AddShortAnswer
    \/ AddLongAnswer
    \/ BuildDocument

LayoutSpec == LayoutInit /\ [][LayoutNext]_vars

\* ------------------------------------------------------------------------
\* Properties
\* ------------------------------------------------------------------------

Last(s) == s[Len(s)]

\* the concatenation of the question lists of a sequence of returns
RECURSIVE ConcatQuestions(_)
ConcatQuestions(rs) ==
    IF rs = <<>> THEN <<>> ELSE Head(rs).questions \o ConcatQuestions(Tail(rs))

\* the members of a sequence of questions, or of returns, of one kind
QuestionsOfKind(qs, kind) ==
    LET IsOfKind(q) == q.type = kind IN SelectSeq(qs, IsOfKind)

ReturnsOfKind(rs, kind) ==
    LET IsOfKind(r) == r.kind = kind IN SelectSeq(rs, IsOfKind)

\* the lines of a sequence of questions grow strictly
LinesIncrease(qs) ==
    \A a \in 1..Len(qs), b \in 1..Len(qs) : a < b => qs[a].line < qs[b].line

\* C1 (Scenario C): when parse_questionnaire has returned, every MCQ question
\* whose line is followed by two lines matching the option pattern and then
\* by a line matching the question pattern has exactly 2 options, and the
\* line after the two is the line of a question of the result.
C1_TwoOptionsThenQuestion ==
    \A p \in Procs :
        LET f == frames[p]
        IN  f.pc = "done" =>
              \A k \in 1..Len(f.all_questions) :
                  LET q == f.all_questions[k]
                      n == q.line
                  IN  ( /\ q.type = "mcq"
                        /\ n + 3 < Len(f.lines)
                        /\ OptionMatch(At(f.lines, n + 1))
                        /\ OptionMatch(At(f.lines, n + 2))
                        /\ QuestionMatch(At(f.lines, n + 3)) )
                      => /\ Len(q.options) = 2
                         /\ \E m \in 1..Len(f.all_questions) :
                                f.all_questions[m].line = n + 3

\* a section parser has just returned at a line that is not the end of input
JustReturned(f) ==
    /\ f.pc = "dispatch" /\ f.returns # <<>>
    /\ Last(f.returns).resume = f.i /\ f.i < Len(f.lines)

\* C2: a section parser of kind K that reaches the header of another kind K'
\* (its option scan hands the line to its outer loop first) returns with the
\* cursor of parse_questionnaire on that line, and the next step of
\* parse_questionnaire enters a section of kind K' that starts on the line
\* after it: no line is skipped or read twice between the two sections.
C2_BreakHandsHeaderOver ==
    [][\A p \in Procs :
          LET f == frames[p]
              g == frames'[p]
          IN  /\ (AtBreak(f) /\ g # f) =>
                    /\ g.pc = "dispatch" /\ g.i = f.j
                    /\ Last(g.returns).kind = f.kind
                    /\ HeaderKind(DispatchLine(g)) \in Kinds \ {f.kind}
              /\ ( /\ f.pc = "options" /\ f.j < Len(f.lines)
                    /\ AtOtherSection(OptionLine(f), f.kind) /\ g # f ) =>
                    g.pc = "section" /\ g.j = f.j /\ AtBreak(g)
              /\ (JustReturned(f) /\ g # f) =>
                    /\ g.pc = "section"
                    /\ g.kind = HeaderKind(Strip(At(f.lines, f.i)))
                    /\ g.kind # Last(f.returns).kind
                    /\ g.start_index = Last(f.returns).resume + 1]_vars

\* C2, witness: a section entered right after the break of a section of
\* another kind that had found a question
C2_Witness ==
    \E p \in Procs :
        LET f == frames[p]
        IN  /\ f.pc = "section" /\ f.returns # <<>>
            /\ Last(f.returns).questions # <<>>
            /\ Last(f.returns).kind # f.kind
            /\ f.start_index = Last(f.returns).resume + 1

\* C3: in the result the questions of each kind are the questions of the
\* sections of that kind, section after section, and their lines grow.
C3_KindsConcatenateInOrder ==
    \A p \in Procs :
        LET f == frames[p]
        IN  f.pc = "done" =>
              \A kind \in Kinds :
                  /\ QuestionsOfKind(f.all_questions, kind)
                        = ConcatQuestions(ReturnsOfKind(f.returns, kind))
                  /\ LinesIncrease(QuestionsOfKind(f.all_questions, kind))

\* C3, witness: two True or False sections with a Short Answer section
\* between them, a question in each
C3_Witness ==
    \E p \in Procs :
        LET f == frames[p]
        IN  /\ f.pc = "done" /\ Len(f.returns) >= 3
            /\ f.returns[1].kind = "true_false" /\ f.returns[1].questions # <<>>
            /\ f.returns[2].kind = "short_answer" /\ f.returns[2].questions # <<>>
            /\ f.returns[3].kind = "true_false" /\ f.returns[3].questions # <<>>

\* C4: an MCQ question of the result has at most 4 options.
C4_AtMostFourOptions ==
    \A p \in Procs :
        \A k \in 1..Len(frames[p].all_questions) :
            LET q == frames[p].all_questions[k]
            IN  q.type = "mcq" => Len(q.options) \in 0..4

\* C4, witness: a returned question with 4 options whose last option is
\* followed by another line that matches the option pattern
C4_Witness ==
    \E p \in Procs :
        LET f == frames[p]
        IN  /\ f.pc = "done"
            /\ \E k \in 1..Len(f.all_questions) :
                  LET q == f.all_questions[k]
                  IN  /\ Len(q.options) = 4
                      /\ q.options[4].line + 1 < Len(f.lines)
                      /\ OptionMatch(At(f.lines, q.options[4].line + 1))

\* C5: the result is the concatenation of what the section parser calls
\* returned, in call order; its length is the sum of theirs, and no line is
\* the line of two of its questions.
C5_ResultIsConcatenation ==
    \A p \in Procs :
        LET f == frames[p]
            qs == f.all_questions
        IN  f.pc = "done" =>
              /\ qs = ConcatQuestions(f.returns)
              /\ \A a \in 1..Len(qs), b \in 1..Len(qs) :
                    a # b => qs[a].line # qs[b].line

\* C5, witness: a result made of the questions of two calls
C5_Witness ==
    \E p \in Procs :
        LET f == frames[p]
        IN  /\ f.pc = "done" /\ Len(f.returns) >= 2
            /\ f.returns[1].questions # <<>> /\ f.returns[2].questions # <<>>
            /\ Len(f.all_questions)
                  = Len(f.returns[1].questions) + Len(f.returns[2].questions)

\* one loop iteration, from frame f to frame g, moves its cursor forward or
\* leaves its loop; a section parser leaves with a resume index between its
\* start index and the number of lines
Progress(f, g) ==
    CASE f.pc = "dispatch" ->
            \/ g.pc = "done"
            \/ g.pc = "dispatch" /\ g.i > f.i
            \/ g.pc = "section" /\ g.start_index > f.i /\ g.j >= g.start_index
      [] f.pc = "section" ->
            \/ g.pc \in {"section", "options"} /\ g.j > f.j
            \/ /\ g.pc = "dispatch" /\ g.i = f.j
               /\ f.start_index <= g.i /\ g.i <= Len(f.lines)
      [] f.pc = "options" ->
            \/ g.pc = "options" /\ g.j > f.j
            \/ g.pc = "section" /\ g.j = f.j
      [] OTHER -> TRUE

\* C6: every call of parse_questionnaire returns; every step of its loops
\* moves the cursor forward or leaves the loop, and every resume index
\* returned lies between the start index and the number of lines.
C6_Terminates ==
    /\ [][\A p \in Procs :
             frames'[p] # frames[p] => Progress(frames[p], frames'[p])]_vars
    /\ [](\A p \in Procs :
             \A k \in 1..Len(frames[p].returns) :
                 LET r == frames[p].returns[k]
                 IN  r.start <= r.resume /\ r.resume <= Len(frames[p].lines))
    /\ \A p \in Procs : (frames[p].pc = "start") ~> (frames[p].pc = "done")

\* C6, witness: a call that went through the three loops has returned
C6_Witness ==
    \E p \in Procs :
        LET f == frames[p]
        IN  /\ f.pc = "done" /\ f.i = Len(f.lines) /\ Len(f.returns) >= 2
            /\ \E k \in 1..Len(f.all_questions) :
                  f.all_questions[k].options # <<>>

\* no line of the input is a section header
NoHeaderLine(f) ==
    \A k \in 1..Len(f.lines) : HeaderKind(f.lines[k]) = "none"

\* C7: on an input without a header line, the sentinel text among them,
\* parse_questionnaire never calls a section parser, reads to the end of
\* the input and returns the empty list.
C7_NoHeaderNoQuestion ==
    \A p \in Procs :
        LET f == frames[p]
        IN  /\ (f.pc \notin {"idle", "start"} /\ NoHeaderLine(f)) =>
                  /\ f.pc \in {"dispatch", "done"}
                  /\ f.all_questions = <<>> /\ f.returns = <<>>
                  /\ f.pc = "done" => f.i = Len(f.lines)
            /\ (f.pc = "done" /\ f.text \in {<<>>, BlankLine, SentinelText}) =>
                  f.all_questions = <<>>

\* C7, witness: a returned call on prose with a numbered line and no header
C7_Witness ==
    \E p \in Procs :
        LET f == frames[p]
        IN  /\ f.pc = "done" /\ NoHeaderLine(f) /\ Len(f.lines) >= 3
            /\ \E k \in 1..Len(f.lines) : QuestionMatch(f.lines[k])
            /\ \E k \in 1..Len(f.lines) : f.lines[k] = Prose

\* C8: a question of the result that is not an MCQ question has no options.
C8_OnlyMcqHasOptions ==
    \A p \in Procs :
        \A k \in 1..Len(frames[p].all_questions) :
            LET q == frames[p].all_questions[k]
            IN  q.type \in {"true_false", "short_answer", "long_answer"}
                    => q.options = <<>>

\* C8, witness: a returned True or False question whose line is followed by
\* a line matching the option pattern
C8_Witness ==
    \E p \in Procs :
        LET f == frames[p]
        IN  /\ f.pc = "done"
            /\ \E k \in 1..Len(f.all_questions) :
                  LET q == f.all_questions[k]
                  IN  /\ q.type = "true_false"
                      /\ q.line + 1 < Len(f.lines)
                      /\ OptionMatch(At(f.lines, q.line + 1))

\* C9: whatever the interleaving of two calls, each call is, at every step,
\* where the call run alone on its text would be; so it returns what the
\* call run alone returns.
C9_InterleavingIsInvisible ==
    \A p \in Procs :
        LET f == frames[p]
        IN  /\ RunFrame(f).all_questions = ParseQuestionnaire(f.text)
            /\ f.pc = "done" => f.all_questions = ParseQuestionnaire(f.text)

\* C9, witness: one call has returned its questions while the other, on
\* another text, is in the middle of a section with questions of its own
C9_Witness ==
    /\ frames[1].pc = "done" /\ frames[1].all_questions # <<>>
    /\ frames[2].pc \in {"section", "options"} /\ frames[2].questions # <<>>
    /\ frames[1].text # frames[2].text

\* a library yields a text of more than 100 characters
Yields(outcome) == outcome.exc = NoException /\ outcome.len > 100

\* C10: extract_text_from_pdf returns what PyMuPDF yields when that is
\* longer than 100 characters, else what pdfplumber yields when that is,
\* else the sentinel; no exception of a library leaves it.
C10_FirstSubstantialOrSentinel ==
    LET e == extraction
    IN  /\ e.pc # "raised"
        /\ e.pc = "done" =>
              e.result = IF Yields(e.fitz) THEN [by |-> "fitz", len |-> e.fitz.len]
                         ELSE IF Yields(e.plumber)
                              THEN [by |-> "plumber", len |-> e.plumber.len]
                              ELSE Sentinel

\* C10, witness: PyMuPDF raised, pdfplumber yielded 100 characters, and the
\* sentinel was returned
C10_Witness ==
    /\ extraction.pc = "done"
    /\ extraction.fitz.exc # NoException
    /\ extraction.plumber.exc = NoException /\ extraction.plumber.len = 100
    /\ extraction.result = Sentinel

\* the kind whose header, in some case and with some gap, the line is
VariantKind(line) ==
    IF \E k \in Kinds : line \in Variants(k)
    THEN CHOOSE k \in Kinds : line \in Variants(k)
    ELSE "none"

\* the line, a header in any case and with any gap put in canonical form
CanonicalLine(line) ==
    IF VariantKind(Strip(line)) = "none" THEN line
    ELSE Canonical(VariantKind(Strip(line)))

\* the text, its lines put in canonical form
CanonicalText(text) ==
    LET pieces == SplitLines[text]
    IN  JoinLines([k \in 1..Len(pieces) |-> CanonicalLine(pieces[k])])

\* the indices of the lines that are a header in some case and gap
VariantLines(f) ==
    {k \in 0..(Len(f.lines) - 1) : VariantKind(At(f.lines, k)) # "none"}

\* C11: header lines that differ in letter case and in the amount of
\* whitespace between the words only are dispatched alike: a call returns
\* the questions, from the same section parser calls, that the call on the
\* text with every such header in lower case with single spaces returns,
\* and the first such line of a text is dispatched to the parser of its kind.
C11_HeaderFormsDispatchAlike ==
    \A p \in Procs :
        LET f == frames[p]
            c == RunFrame(CalledFrame(CanonicalText(f.text)))
        IN  f.pc = "done" =>
              /\ f.all_questions = c.all_questions
              /\ f.returns = c.returns
              /\ \A k \in VariantLines(f) :
                    (\A m \in VariantLines(f) : k <= m) =>
                        /\ f.returns # <<>>
                        /\ f.returns[1].kind = VariantKind(At(f.lines, k))
                        /\ f.returns[1].start = k + 1

\* C11, witness: a returned call on a text with an upper case header and a
\* header with a gap of two, not in canonical form, both of which were
\* dispatched and gave questions
C11_Witness ==
    \E p \in Procs :
        LET f == frames[p]
        IN  /\ f.pc = "done" /\ f.text # CanonicalText(f.text)
            /\ Len(f.returns) = 2
            /\ f.returns[1].questions # <<>> /\ f.returns[2].questions # <<>>
            /\ \E k \in Kinds :
                  At(f.lines, f.returns[1].start - 1) = Variant(k, "upper", 1)
            /\ \E k \in Kinds :
                  At(f.lines, f.returns[2].start - 1) = Variant(k, "title", 2)

\* the index of the first non-blank line after line n, the number of lines
\* when there is none
RECURSIVE NextNonBlank(_, _)
NextNonBlank(lines, n) ==
    IF n + 1 >= Len(lines) THEN Len(lines)
    ELSE IF Strip(At(lines, n + 1)) # <<>> THEN n + 1
    ELSE NextNonBlank(lines, n + 1)

\* the line of the last option of a question, its own line when it has none
LastLine(q) == IF q.options = <<>> THEN q.line ELSE Last(q.options).line

\* the way the option scan of a question of the result ended, read off the
\* lines
Ending(f, q) ==
    LET n == NextNonBlank(f.lines, LastLine(q))
    IN  IF Len(q.options) = MaxOptions THEN "fourth option"
        ELSE IF n = Len(f.lines) THEN "end of input"
        ELSE IF AtOtherSection(At(f.lines, n), "mcq") THEN "header"
        ELSE "no option"

\* s is a prefix of t
IsPrefix(s, t) == Len(s) <= Len(t) /\ s = SubSeq(t, 1, Len(s))

\* C12: a line that the outer loop of parse_mcq_section takes for a
\* question becomes the question of an option scan and is not yet in the
\* list; the scan only adds options to it; every scan ends, and the step that
\* ends it, whatever the way, appends that question with the options it has
\* to the list, once; no other step of the MCQ parser changes the list.
C12_QuestionAppendedOnce ==
    /\ [][\A p \in Procs :
             LET f == frames[p]
                 g == frames'[p]
             IN  /\ (AtQuestion(f) /\ f.kind = "mcq" /\ g # f) =>
                       /\ g.pc = "options" /\ g.questions = f.questions
                       /\ g.question.line = f.j /\ g.question.options = <<>>
                       /\ g.question.type = "mcq"
                       /\ \A k \in 1..Len(g.questions) :
                             g.questions[k].line < g.question.line
                 /\ (f.pc = "options" /\ g # f) =>
                       \/ /\ g.pc = "options" /\ g.questions = f.questions
                          /\ g.question.line = f.question.line
                          /\ IsPrefix(f.question.options, g.question.options)
                       \/ /\ g.pc = "section"
                          /\ g.questions = Append(f.questions, f.question)
                 /\ ( /\ f.pc = "section" /\ f.kind = "mcq"
                      /\ g.pc = "section" ) => g.questions = f.questions]_vars
    /\ \A p \in Procs : (frames[p].pc = "options") ~> (frames[p].pc = "section")

\* C12, witness: a returned call whose questions had their option scans end
\* in the four ways, one of them without an option
C12_Witness ==
    \E p \in Procs :
        LET f == frames[p]
        IN  /\ f.pc = "done"
            /\ \A e \in {"fourth option", "end of input", "header", "no option"} :
                  \E k \in 1..Len(f.all_questions) :
                      /\ f.all_questions[k].type = "mcq"
                      /\ Ending(f, f.all_questions[k]) = e
            /\ \E k \in 1..Len(f.all_questions) :
                  f.all_questions[k].options = <<>>

\* the index of the i-th non-blank line after line n (i >= 1), the number of
\* lines when there are fewer
RECURSIVE NthNonBlank(_, _, _)
NthNonBlank(lines, n, i) ==
    IF i = 1 THEN NextNonBlank(lines, n)
    ELSE NthNonBlank(lines, NextNonBlank(lines, n), i - 1)

OptionLines(qs) ==
    UNION {{qs[k].options[o].line : o \in 1..Len(qs[k].options)} :
              k \in 1..Len(qs)}

\* C13: an option scan that has recorded four options stops where it is and
\* appends its question; in the result, the first non-blank line after the
\* fourth option of a question is the line of no option, and when it matches
\* the question pattern it is the line of an MCQ question.
C13_ScanStopsAtFour ==
    /\ [][\A p \in Procs :
             LET f == frames[p]
                 g == frames'[p]
             IN  ( /\ f.pc = "options" /\ f.option_count = MaxOptions
                   /\ g # f ) =>
                     /\ g.pc = "section" /\ g.j = f.j
                     /\ g.questions = Append(f.questions, f.question)]_vars
    /\ [](\A p \in Procs :
             LET f == frames[p]
                 qs == f.all_questions
             IN  f.pc = "done" =>
                   \A k \in 1..Len(qs) :
                       LET n == NextNonBlank(f.lines, Last(qs[k].options).line)
                       IN  (Len(qs[k].options) >= MaxOptions /\ n < Len(f.lines))
                           => /\ Len(qs[k].options) = MaxOptions
                              /\ n \notin OptionLines(qs)
                              /\ QuestionMatch(At(f.lines, n)) =>
                                    \E m \in 1..Len(qs) :
                                        /\ qs[m].line = n
                                        /\ qs[m].type = "mcq")

\* C13, witness: a returned question with four options, then blank lines,
\* then a line that matches the option pattern and the question pattern,
\* which became the next question
C13_Witness ==
    \E p \in Procs :
        LET f == frames[p]
            qs == f.all_questions
        IN  /\ f.pc = "done" /\ Len(qs) >= 2
            /\ Len(qs[1].options) = MaxOptions
            /\ qs[2].line > qs[1].options[MaxOptions].line + 1
            /\ OptionMatch(At(f.lines, qs[2].line))

\* C14: in the result, when the first i non-blank lines after the line of
\* an MCQ question (i = 1..4) all match the option pattern, the i-th of them
\* is the line of the question's i-th option, however many blank lines lie
\* before it; four such lines give the question all four options.
C14_BlankLinesSkipped ==
    \A p \in Procs :
        LET f == frames[p]
            qs == f.all_questions
        IN  f.pc = "done" =>
              \A k \in 1..Len(qs) : \A i \in 1..MaxOptions :
                  ( /\ qs[k].type = "mcq"
                    /\ \A h \in 1..i :
                          LET n == NthNonBlank(f.lines, qs[k].line, h)
                          IN  n < Len(f.lines) /\ OptionMatch(At(f.lines, n)) )
                  => /\ Len(qs[k].options) >= i
                     /\ qs[k].options[i].line = NthNonBlank(f.lines, qs[k].line, i)

\* C14, witness: a returned question with four options, with blank lines
\* between its line and the first option and between the options, five or
\* more in all
C14_Witness ==
    \E p \in Procs :
        LET f == frames[p]
            qs == f.all_questions
        IN  /\ f.pc = "done" /\ qs # <<>>
            /\ Len(qs[1].options) = MaxOptions
            /\ qs[1].options[1].line > qs[1].line + 1
            /\ qs[1].options[3].line > qs[1].options[2].line + 1
            /\ qs[1].options[4].line >= qs[1].line + 9

\* the indices of the header lines, of any kind, before line n
HeadersBefore(lines, n) ==
    {k \in 0..(n - 1) : HeaderKind(At(lines, k)) # "none"}

\* the greatest member of a non-empty set of numbers
Max(S) == CHOOSE x \in S : \A y \in S : y <= x

\* the questions an invocation has collected so far
Collected(f) ==
    f.all_questions \o (IF f.pc \in {"section", "options"} THEN f.questions
                        ELSE <<>>)

\* C16: a question that parse_questionnaire has collected, and so every
\* question it returns, is from a line with a header line before it, and
\* has the kind of the nearest header line, of any kind, before its line.
C16_KindOfNearestHeader ==
    \A p \in Procs :
        LET f == frames[p]
            qs == Collected(f)
        IN  \A k \in 1..Len(qs) :
                LET hs == HeadersBefore(f.lines, qs[k].line)
                IN  /\ hs # {}
                    /\ qs[k].type = HeaderKind(At(f.lines, Max(hs)))

\* C16, witness: a returned question whose nearest header line is not the
\* one that was dispatched but a later header of the same kind, inside the
\* section
C16_Witness ==
    \E p \in Procs :
        LET f == frames[p]
        IN  /\ f.pc = "done"
            /\ \E r \in 1..Len(f.returns) :
                  /\ f.returns[r].questions # <<>>
                  /\ Max(HeadersBefore(f.lines, f.returns[r].questions[1].line))
                        >= f.returns[r].start

\* C17: in the list parse_questionnaire has collected, and so in the list
\* it returns, the lines of the questions grow strictly; the lines of the
\* options of a question grow strictly, the first is after the line of the
\* question and the last before the line of the next question of the list;
\* so no line is the line of a question and of an option, or of two options.
C17_LinesGrow ==
    \A p \in Procs :
        LET qs == Collected(frames[p])
        IN  /\ LinesIncrease(qs)
            /\ \A k \in 1..Len(qs) :
                  LET os == qs[k].options
                  IN  /\ LinesIncrease(os)
                      /\ \A o \in 1..Len(os) :
                            /\ qs[k].line < os[o].line
                            /\ k < Len(qs) => os[o].line < qs[k + 1].line
            /\ \A k \in 1..Len(qs) : qs[k].line \notin OptionLines(qs)
            /\ \A k \in 1..Len(qs), m \in 1..Len(qs) :
                  \A a \in 1..Len(qs[k].options), b \in 1..Len(qs[m].options) :
                      (k # m \/ a # b) => qs[k].options[a].line # qs[m].options[b].line

\* C17, witness: a returned list of an MCQ question with two options or more,
\* an MCQ question with an option and a third question
C17_Witness ==
    \E p \in Procs :
        LET f == frames[p]
            qs == f.all_questions
        IN  /\ f.pc = "done" /\ Len(qs) >= 3
            /\ Len(qs[1].options) >= 2 /\ Len(qs[2].options) >= 1

\* the place of a kind in the order MCQ, TRUE_FALSE, SHORT_ANSWER,
\* LONG_ANSWER
Rank(kind) ==
    CASE kind = "mcq" -> 1 [] kind = "true_false" -> 2
      [] kind = "short_answer" -> 3 [] kind = "long_answer" -> 4

\* the indices of the paragraphs of a style in a list of flowables
ParagraphsOf(c, style) ==
    {i \in 1..Len(c) : c[i].flowable = "Paragraph" /\ c[i].style = style}

\* the index in the list qs of the question of line n
IndexOfLine(qs, n) == CHOOSE k \in 1..Len(qs) : qs[k].line = n

\* the number of options of the questions of a list
RECURSIVE CountOptions(_)
CountOptions(qs) ==
    IF qs = <<>> THEN 0 ELSE Len(Head(qs).options) + CountOptions(Tail(qs))

\* C15: what create_structured_pdf hands to doc.build is a stable partition
\* of its input by kind in the order MCQ, TRUE_FALSE, SHORT_ANSWER,
\* LONG_ANSWER: every question of the input is the text of one question
\* paragraph and there are no others; of two question paragraphs the first
\* is of a kind earlier in the order, or of the same kind and earlier in the
\* input; the options of an MCQ question follow its paragraph in their
\* order, and no other option paragraphs exist; a kind has one heading,
\* before its questions and after those of the kinds before it, when the
\* input has a question of the kind, and none when it has not.
C15_StablePartitionByKind ==
    LET c == document.built
        qs == document.questions
        QP == ParagraphsOf(c, "Heading2")
        HP == ParagraphsOf(c, "Heading1")
        Q(i) == qs[IndexOfLine(qs, c[i].line)]
    IN  document.pc = "built" =>
          /\ Cardinality(QP) = Len(qs)
          /\ \A k \in 1..Len(qs) :
                \E i \in QP : c[i].line = qs[k].line /\ c[i].text = qs[k].text
          /\ \A i \in QP, j \in QP :
                i < j => \/ Rank(Q(i).type) < Rank(Q(j).type)
                         \/ /\ Q(i).type = Q(j).type
                            /\ IndexOfLine(qs, c[i].line) < IndexOfLine(qs, c[j].line)
          /\ \A i \in QP :
                LET os == IF Q(i).type = "mcq" THEN Q(i).options ELSE <<>>
                IN  /\ c[i + 1].flowable = "Spacer"
                    /\ \A o \in 1..Len(os) :
                          /\ c[i + 1 + o].style = "Normal"
                          /\ c[i + 1 + o].text = os[o].text
                          /\ c[i + 1 + o].line = os[o].line
          /\ Cardinality(ParagraphsOf(c, "Normal"))
                = CountOptions(Group(qs, "mcq"))
          /\ \A kind \in Kinds :
                LET hs == {i \in HP : c[i].text = Heading(kind)}
                IN  IF \E k \in 1..Len(qs) : qs[k].type = kind
                    THEN /\ Cardinality(hs) = 1
                         /\ \A h \in hs, i \in QP :
                               /\ Q(i).type = kind => h < i
                               /\ Rank(Q(i).type) < Rank(kind) => i < h
                    ELSE hs = {}
          /\ \A i \in HP : \E kind \in Kinds : c[i].text = Heading(kind)

\* C15, witness: a document built from a list in which a True or False
\* question comes before an MCQ question with an option and another True
\* or False question after it, and which has no Long Answer question
C15_Witness ==
    /\ document.pc = "built"
    /\ \E a, b, e \in 1..Len(document.questions) :
          /\ a < b /\ b < e
          /\ document.questions[a].type = "true_false"
          /\ document.questions[b].type = "mcq"
          /\ document.questions[b].options # <<>>
          /\ document.questions[e].type = "true_false"
    /\ \A k \in 1..Len(document.questions) :
          document.questions[k].type # "long_answer"

====
